---- MODULE Spec2Model ----
(***************************************************************************)
(* A model of ffnn.ts: an RGBA image rendered by a randomly initialised    *)
(* feed-forward network (src/ffnn.ts).                                     *)
(*                                                                         *)
(* Numbers.  A JavaScript number is modelled as an integer or as NaN.      *)
(* Dimensions, counters and indices are plain integers.  Matrix elements   *)
(* are fixed-point values in units of 1/Scale; colour channels are         *)
(* fixed-point values in units of 1/Fine.  Math.random() returns one of    *)
(* the eight values 0/8 .. 7/8.  In Spec and SpecOps the random source is  *)
(* a generator whose seed is unknown; in SpecGauss every draw is an        *)
(* arbitrary one of the eight values.                                      *)
(*                                                                         *)
(* Objects.  Every Matrix is an object on `heap` (a sequence; the index is *)
(* the object's identity), so that an operation writing into one of its    *)
(* arguments is distinguishable from one returning a new Matrix.           *)
(***************************************************************************)
EXTENDS Integers, Sequences, FiniteSets, TLC

VARIABLES
    pc,      \* position in the program / which operation was applied
    config,  \* the Config passed to getImageData
    model,   \* the Model: weight-matrix name -> Matrix object (heap index)
    heap,    \* the live Matrix objects
    rng,     \* state of the random source behind Math.random()
    pixels,  \* the Uint8ClampedArray built by getImageData
    px,      \* loop variable x of getImageData
    py,      \* loop variable y of getImageData
    li,      \* loop variable i of forwardNetwork
    out,     \* forwardNetwork's local `out` (heap index)
    layers,  \* names of the weight matrices multiplied in this forward pass
    color,   \* the array returned by the last getColorAt
    err,     \* the error thrown, "none" if none
    arg,     \* arguments of the operation applied (operation specifications)
    ret      \* value returned by the operation applied

vars == <<pc, config, model, heap, rng, pixels, px, py, li, out, layers,
          color, err, arg, ret>>

(***************************************************************************)
(* Bounds of the model.                                                    *)
(***************************************************************************)
MaxWidth == 2
MaxHeight == 2
MaxInput == 2
MaxHidden == 2
MaxDim == 2

(***************************************************************************)
(* Numbers                                                                 *)
(***************************************************************************)
\* NaN: a value outside the range of every other modelled number.
NaN == -1000000000

IsNaN(a) == a = NaN

\* a * b
Mul(a, b) == IF IsNaN(a) \/ IsNaN(b) THEN NaN ELSE a * b

\* a + b
Add(a, b) == IF IsNaN(a) \/ IsNaN(b) THEN NaN ELSE a + b

\* a < b: false when either side is NaN
Lt(a, b) == ~IsNaN(a) /\ ~IsNaN(b) /\ a < b

\* a !== b: true when either side is NaN
StrictNeq(a, b) == IsNaN(a) \/ IsNaN(b) \/ a # b

\* x || dflt: 0 and NaN are falsy
OrDefault(a, dflt) == IF IsNaN(a) \/ a = 0 THEN dflt ELSE a

\* Unit of the fixed-point matrix elements (two decimals).
Scale == 100

\* Unit of the fixed-point colour channels (four decimals).
Fine == Scale * Scale

\* Product of two fixed-point values.
FxMul(a, b) == (a * b) \div Scale

\* Math.tanh on fixed-point values: the Pade approximant
\* x(27 + x^2) / (27 + 9x^2), which reaches 1 at x = 3; saturated beyond,
\* as the double result is for large |x|.
RECURSIVE TanhFx(_)
TanhFx(a) ==
    IF a < 0 THEN -TanhFx(-a)
    ELSE IF a >= 3 * Scale THEN Scale
    ELSE (a * (27 * Scale * Scale + a * a)) \div (27 * Scale * Scale + 9 * a * a)

\* sig(x) = 1 / (1 + exp(-x)) = (1 + tanh(x / 2)) / 2
sig(a) == (Scale + TanhFx(a \div 2)) \div 2

(***************************************************************************)
(* The random source                                                       *)
(***************************************************************************)
RngStates == 0..7

\* The value Math.random() returns in generator state s, in eighths.
MathRandom(s) == s

\* The generator state after one call of Math.random(): a full-period
\* congruential generator; the seed is unknown.
NextRng(s) == (5 * s + 3) % 8

\* 2 * Math.random() - 1, in quarters.
Uniform(r) == r - 4

\* r = u * u + v * v, in sixteenths.
RadiusSq(u, v) == u * u + v * v

\* The loop condition without its r === 0 test.
RejectedOnlyAboveOne(r) == r > 16

\* The loop condition of generateGaussianRandom: r === 0 || r > 1.
Rejected(r) == r = 0 \/ r > 16

\* c = Math.sqrt((-2 * Math.log(r)) / r) for r in sixteenths, in units of
\* 1/Scale, tabulated at the values u * u + v * v takes; r = 0 gives
\* Infinity and u * c = 0 * Infinity = NaN.
SqrtLog(r) ==
    CASE r = 1 -> 942
      [] r = 2 -> 577
      [] r = 4 -> 333
      [] r = 5 -> 273
      [] r = 8 -> 167
      [] r = 9 -> 143
      [] r = 10 -> 123
      [] r = 13 -> 71
      [] r = 16 -> 0
      [] OTHER -> NaN

\* return u * c
GaussValue(u, r) == IF r = 0 THEN NaN ELSE (u * SqrtLog(r)) \div 4

\* generateGaussianRandom() from generator state s: the value returned and
\* the generator state after it.
RECURSIVE generateGaussianRandom(_)
generateGaussianRandom(s) ==
    LET u == Uniform(MathRandom(s))
        s1 == NextRng(s)
        v == Uniform(MathRandom(s1))
        s2 == NextRng(s1)
        r == RadiusSq(u, v)
    IN IF Rejected(r) THEN generateGaussianRandom(s2)
       ELSE [val |-> GaussValue(u, r), rng |-> s2]

\* mean + generateGaussianRandom() * standardDeviation
generateRandomNormal(mean, standardDeviation, s) ==
    LET g == generateGaussianRandom(s)
    IN [val |-> mean + FxMul(g.val, standardDeviation), rng |-> g.rng]

(***************************************************************************)
(* Matrices                                                                *)
(***************************************************************************)
\* A typed-array allocation that takes a negative length for 0.
TypedArrayNewLenient(num) ==
    IF IsNaN(num) \/ num < 0 THEN [err |-> "none", w |-> <<>>]
    ELSE [err |-> "none", w |-> [k \in 1..num |-> 0]]

\* new Float64Array(num), new Uint8ClampedArray(num): a zero-filled buffer
\* of ToIndex(num) elements; ToIndex(NaN) is 0, a negative length is a
\* RangeError.
TypedArrayNew(num) ==
    IF IsNaN(num) THEN [err |-> "none", w |-> <<>>]
    ELSE IF num < 0 THEN [err |-> "RangeError", w |-> <<>>]
    ELSE [err |-> "none", w |-> [k \in 1..num |-> 0]]

\* zeros(num): isNaN(num) ? new Float64Array() : new Float64Array(num)
zeros(num) ==
    IF IsNaN(num) THEN [err |-> "none", w |-> <<>>] ELSE TypedArrayNew(num)

\* n + d in place of n * d.
MatrixSizeSum(n, d) == Add(n, d)

\* The argument the Matrix constructor passes to zeros: n * d.
MatrixSize(n, d) == Mul(n, d)

\* The Matrix constructor: the fields of the new object, or the error.
Matrix(n, d) ==
    LET z == zeros(MatrixSize(n, d))
    IN [err |-> z.err, m |-> [n |-> n, d |-> d, w |-> z.w]]

\* new Matrix(n, d) on heap h: the heap with the new object, and its index.
New(h, n, d) ==
    LET c == Matrix(n, d)
    IN IF c.err # "none" THEN [err |-> c.err, heap |-> h, id |-> 0]
       ELSE [err |-> "none", heap |-> Append(h, c.m), id |-> Len(h) + 1]

\* const ix = this.d * row + col
FlatIndex(m, row, col) == Add(Mul(m.d, row), col)

\* The exact bounds test: ix < 0 || ix >= this.w.length.
OutOfBoundsStrict(ix, len) == IsNaN(ix) \/ ix < 0 \/ ix >= len

\* The bounds test of get and set: ix >= 0 && ix > this.w.length.
OutOfBounds(ix, len) == ~IsNaN(ix) /\ ix >= 0 /\ ix > len

\* An element read of a Float64Array: undefined outside 0 .. length - 1.
Undefined == [defined |-> FALSE, v |-> 0]

ReadAt(w, ix) ==
    IF ~IsNaN(ix) /\ ix >= 0 /\ ix < Len(w)
    THEN [defined |-> TRUE, v |-> w[ix + 1]]
    ELSE Undefined

\* An element write of a Float64Array: ignored outside 0 .. length - 1.
WriteAt(w, ix, value) ==
    IF ~IsNaN(ix) /\ ix >= 0 /\ ix < Len(w)
    THEN [w EXCEPT ![ix + 1] = value]
    ELSE w

\* Matrix.get(row, col) of object a.
get(h, a, row, col) ==
    LET ix == FlatIndex(h[a], row, col)
    IN IF OutOfBounds(ix, Len(h[a].w))
       THEN [err |-> "index out of bounds", val |-> Undefined]
       ELSE [err |-> "none", val |-> ReadAt(h[a].w, ix)]

\* Matrix.set(row, col, value) of object a.
set(h, a, row, col, value) ==
    LET ix == FlatIndex(h[a], row, col)
    IN IF OutOfBounds(ix, Len(h[a].w))
       THEN [err |-> "index out of bounds", heap |-> h]
       ELSE [err |-> "none",
             heap |-> [h EXCEPT ![a].w = WriteAt(h[a].w, ix, value)]]

\* The elementwise loop of tanh and sigmoid on a new Matrix of the same
\* shape as object a; isTanh selects the scalar map (Math.tanh or sig).
Activate(h, a, isTanh) ==
    LET r == New(h, h[a].n, h[a].d)
        src == h[a].w
    IN IF r.err # "none" THEN r
       ELSE [r EXCEPT !.heap[r.id].w =
                [k \in 1..Len(r.heap[r.id].w) |->
                    IF k <= Len(src)
                    THEN (IF isTanh THEN TanhFx(src[k]) ELSE sig(src[k]))
                    ELSE 0]]

tanh(h, a) == Activate(h, a, TRUE)

sigmoid(h, a) == Activate(h, a, FALSE)

\* A guard comparing the rows of both: m1.n !== m2.n.
MisalignedRows(m1, m2) == StrictNeq(m1.n, m2.n)

\* The guard of matrixMul: m1.d !== m2.n.
Misaligned(m1, m2) == StrictNeq(m1.d, m2.n)

\* The innermost loop of matrixMul: the dot product for cell (i, j).
RECURSIVE Dot(_, _, _, _, _)
Dot(m1, m2, i, j, k) ==
    IF ~(k < m1.d) THEN 0
    ELSE FxMul(m1.w[m1.d * i + k + 1], m2.w[m2.d * k + j + 1])
         + Dot(m1, m2, i, j, k + 1)

\* The buffer matrixMul fills: cell d * i + j for i < n and j < d.
Product(m1, m2, w) ==
    [p \in 1..Len(w) |->
        IF Lt(0, m1.n) /\ Lt(0, m2.d) /\ p <= m1.n * m2.d
        THEN Dot(m1, m2, (p - 1) \div m2.d, (p - 1) % m2.d, 0)
        ELSE w[p]]

\* matrixMul writing the product into its first argument.
matrixMulInPlace(h, a, b) ==
    IF Misaligned(h[a], h[b])
    THEN [err |-> "Matrix dimensions misaligned", heap |-> h, id |-> 0]
    ELSE LET r == New(h, h[a].n, h[b].d)
         IN IF r.err # "none" THEN r
            ELSE [r EXCEPT !.heap[a].w = Product(h[a], h[b], h[a].w),
                           !.heap[r.id].w = Product(h[a], h[b], r.heap[r.id].w)]

\* matrixMul(m1, m2) for objects a and b: the error, or the heap with the
\* new Matrix and its index.
matrixMul(h, a, b) ==
    IF Misaligned(h[a], h[b])
    THEN [err |-> "Matrix dimensions misaligned", heap |-> h, id |-> 0]
    ELSE LET r == New(h, h[a].n, h[b].d)
         IN IF r.err # "none" THEN r
            ELSE [r EXCEPT !.heap[r.id].w = Product(h[a], h[b], r.heap[r.id].w)]

\* fillRandn: every element of object a drawn with generateRandomNormal,
\* from element k on.
RECURSIVE fillRandn(_, _, _, _, _, _)
fillRandn(h, a, mean, standardDeviation, s, k) ==
    IF k > Len(h[a].w) THEN [heap |-> h, rng |-> s]
    ELSE LET g == generateRandomNormal(mean, standardDeviation, s)
         IN fillRandn([h EXCEPT ![a].w[k] = g.val], a, mean,
                      standardDeviation, g.rng, k + 1)

\* RandMat(rows, columns, mean, standardDeviation), 0.08 in units of 1/Scale.
RandMat(h, rows, columns, mean, standardDeviation, s) ==
    LET r == New(h, rows, columns)
    IN IF r.err # "none" THEN [err |-> r.err, heap |-> h, id |-> 0, rng |-> s]
       ELSE LET f == fillRandn(r.heap, r.id, OrDefault(mean, 0),
                               OrDefault(standardDeviation, 8), s, 1)
            IN [err |-> "none", heap |-> f.heap, id |-> r.id, rng |-> f.rng]

(***************************************************************************)
(* Model construction                                                      *)
(***************************************************************************)
\* const weightInitRange = 0.8, in units of 1/Scale.
weightInitRange == 80

\* The template literal `w_${layerIndex}`.
HiddenKey(k) == "w_" \o ToString(k)

\* model[key] = id
Assign(m, key, id) ==
    [k \in DOMAIN m \cup {key} |-> IF k = key THEN id ELSE m[k]]

\* The loop condition with <= for <.
LayerLoopInclusive(layerIndex, c) ==
    Lt(layerIndex, c.hidden) \/ layerIndex = c.hidden

\* The loop condition of createModel: layerIndex < config.hidden.
LayerLoop(layerIndex, c) == Lt(layerIndex, c.hidden)

\* The loop of createModel from layerIndex on; st is the state so far.
RECURSIVE HiddenLayers(_, _, _)
HiddenLayers(st, c, layerIndex) ==
    IF st.err # "none" \/ ~LayerLoop(layerIndex, c) THEN st
    ELSE LET r == RandMat(st.heap, c.input, c.input, 0, weightInitRange,
                          st.rng)
         IN HiddenLayers(
                [err |-> r.err, heap |-> r.heap, rng |-> r.rng,
                 model |-> IF r.err = "none"
                           THEN Assign(st.model, HiddenKey(layerIndex), r.id)
                           ELSE st.model],
                c, layerIndex + 1)

NoModel == [k \in {} |-> 0]

\* createModel(config) with the random source in state s.
createModel(c, s) ==
    LET a == RandMat(<<>>, c.input, 3, 0, weightInitRange, s)
        b == RandMat(a.heap, 3, c.input, 0, weightInitRange, a.rng)
    IN IF a.err # "none"
       THEN [err |-> a.err, heap |-> a.heap, rng |-> a.rng, model |-> NoModel]
       ELSE IF b.err # "none"
       THEN [err |-> b.err, heap |-> b.heap, rng |-> b.rng, model |-> NoModel]
       ELSE HiddenLayers([err |-> "none", heap |-> b.heap, rng |-> b.rng,
                          model |-> [w_in |-> a.id, w_out |-> b.id]], c, 0)

(***************************************************************************)
(* Forward pass                                                            *)
(***************************************************************************)
\* x / config.width for integers 0 <= x < width, in units of 1/Scale.
Ratio(a, b) == (a * Scale) \div b

\* const x = new Matrix(3, 1) and the three calls of set.
InputVector(h, x_, y_) ==
    LET n == New(h, 3, 1)
        s1 == set(n.heap, n.id, 0, 0, x_)
        s2 == set(s1.heap, n.id, 1, 0, y_)
        s3 == set(s2.heap, n.id, 2, 0, Scale)
    IN IF n.err # "none" THEN n
       ELSE IF s1.err # "none" THEN [err |-> s1.err, heap |-> h, id |-> 0]
       ELSE IF s2.err # "none" THEN [err |-> s2.err, heap |-> h, id |-> 0]
       ELSE IF s3.err # "none" THEN [err |-> s3.err, heap |-> h, id |-> 0]
       ELSE [err |-> "none", heap |-> s3.heap, id |-> n.id]

\* tanh(matrixMul(w, v)) (isTanh) or sigmoid(matrixMul(w, v)).
Layer(h, w, v, isTanh) ==
    LET p == matrixMul(h, w, v)
    IN IF p.err # "none" THEN p ELSE Activate(p.heap, p.id, isTanh)

\* The hidden layers taken last to first.
ForwardKeyReversed(c, k) == HiddenKey(c.hidden - 1 - k)

\* The key forwardNetwork reads in iteration i: `w_${i}`.
ForwardKey(c, k) == HiddenKey(k)

(***************************************************************************)
(* Colours and pixels                                                      *)
(***************************************************************************)
\* const noiseRange = 0.03, in units of 1/Scale.
noiseRange == 3

\* const a = 255
alpha == 255

\* noise(): (Math.random() * 2 - 1) * noiseRange for a draw r in eighths,
\* in units of 1/Fine.
noise(r) == ((r * 2 - 8) * noiseRange * Scale) \div 8

\* (out.w[k] + noise()) * config.maxC, in units of 1/Fine; an undefined
\* element gives NaN.
Channel(e, nz, max) ==
    IF e.defined THEN Mul(Add(e.v * Scale, nz), max) ELSE NaN

\* Math.min(255, v), without the Math.max.
ClampNoFloor(v) ==
    IF IsNaN(v) THEN NaN ELSE IF v > 255 * Fine THEN 255 * Fine ELSE v

\* Math.min(255, Math.max(0, v)); NaN stays NaN.
Clamp(v) ==
    IF IsNaN(v) THEN NaN
    ELSE IF v < 0 THEN 0
    ELSE IF v > 255 * Fine THEN 255 * Fine
    ELSE v

\* getColorAt after forwardNetwork returned object o, the random source in
\* state s: the array returned and the generator state after three draws.
getColorAt(h, o, c, s) ==
    LET s1 == NextRng(s)
        s2 == NextRng(s1)
        r == Channel(ReadAt(h[o].w, 0), noise(MathRandom(s)), c.maxR)
        g == Channel(ReadAt(h[o].w, 1), noise(MathRandom(s1)), c.maxG)
        b == Channel(ReadAt(h[o].w, 2), noise(MathRandom(s2)), c.maxB)
    IN [val |-> <<Clamp(r), Clamp(g), Clamp(b), alpha * Fine>>,
        rng |-> NextRng(s2)]

\* The conversion of a stored element of a Uint8ClampedArray: NaN is 0,
\* the value is clamped to 0 .. 255 and rounded to nearest, ties to even.
ToUint8Clamp(v) ==
    IF IsNaN(v) \/ v <= 0 THEN 0
    ELSE IF v >= 255 * Fine THEN 255
    ELSE LET q == v \div Fine
             f == (v % Fine) * 2
         IN IF f > Fine THEN q + 1
            ELSE IF f < Fine THEN q
            ELSE q + (q % 2)

\* Three bytes a pixel in place of four.
PixelBytesNoAlpha(c) == Mul(Mul(c.width, c.height), 3)

\* config.width * config.height * 4
PixelBytes(c) == Mul(Mul(c.width, c.height), 4)

\* const idx = (y * config.width + x) * 4
PixelIndex(c, x, y) == (y * c.width + x) * 4

\* pixels[idx] = r ... pixels[idx + 3] = a
StoreColor(p, idx, col) ==
    LET p0 == WriteAt(p, idx, ToUint8Clamp(col[1]))
        p1 == WriteAt(p0, idx + 1, ToUint8Clamp(col[2]))
        p2 == WriteAt(p1, idx + 2, ToUint8Clamp(col[3]))
    IN WriteAt(p2, idx + 3, ToUint8Clamp(col[4]))

(***************************************************************************)
(* getImageData as a state machine                                         *)
(***************************************************************************)
\* The values a dimension of the configuration is drawn from.
Dims(max) == {NaN} \cup (-1..max)

\* The (maxR, maxG, maxB) triples the configuration is drawn from.
ColourMaxes == {<<255, 255, 255>>, <<-20, 0, 300>>, <<300, -20, 0>>,
                <<0, 300, -20>>}

Configs ==
    {[width |-> w, height |-> h, input |-> n, hidden |-> k,
      maxR |-> mx[1], maxG |-> mx[2], maxB |-> mx[3]] :
        w \in Dims(MaxWidth), h \in Dims(MaxHeight), n \in Dims(MaxInput),
        k \in Dims(MaxHidden), mx \in ColourMaxes}

NoConfig == [width |-> 0, height |-> 0, input |-> 0, hidden |-> 0,
             maxR |-> 0, maxG |-> 0, maxB |-> 0]

NoArg == [op |-> "none"]

NoRet == [err |-> "none"]

Init ==
    /\ pc = "start"
    /\ config \in Configs
    /\ rng \in RngStates
    /\ model = NoModel
    /\ heap = <<>>
    /\ pixels = <<>>
    /\ px = 0
    /\ py = 0
    /\ li = 0
    /\ out = 0
    /\ layers = <<>>
    /\ color = <<>>
    /\ err = "none"
    /\ arg = NoArg
    /\ ret = NoRet

\* throw: the render is abandoned.
Throw(e) ==
    /\ pc' = "error"
    /\ err' = e

\* const model = createModel(config)
CreateModel ==
    /\ pc = "start"
    /\ LET r == createModel(config, rng)
       IN /\ heap' = r.heap
          /\ model' = r.model
          /\ rng' = r.rng
          /\ IF r.err = "none"
             THEN pc' = "alloc" /\ err' = err
             ELSE Throw(r.err)
    /\ UNCHANGED <<config, pixels, px, py, li, out, layers, color, arg, ret>>

\* const pixels = new Uint8ClampedArray(config.width * config.height * 4)
AllocPixels ==
    /\ pc = "alloc"
    /\ LET a == TypedArrayNew(PixelBytes(config))
       IN /\ pixels' = a.w
          /\ IF a.err = "none"
             THEN pc' = "loop_y" /\ err' = err
             ELSE Throw(a.err)
    /\ UNCHANGED <<config, model, heap, rng, px, py, li, out, layers, color,
                   arg, ret>>

\* for (let y = 0; y < config.height; y++): the test.
LoopY ==
    /\ pc = "loop_y"
    /\ pc' = IF Lt(py, config.height) THEN "loop_x" ELSE "done"
    /\ px' = 0
    /\ UNCHANGED <<config, model, heap, rng, pixels, py, li, out, layers,
                   color, err, arg, ret>>

\* for (let x = 0; x < config.width; x++): the test, and y++ at its exit.
LoopX ==
    /\ pc = "loop_x"
    /\ IF Lt(px, config.width)
       THEN pc' = "fwd_in" /\ py' = py
       ELSE pc' = "loop_y" /\ py' = py + 1
    /\ UNCHANGED <<config, model, heap, rng, pixels, px, li, out, layers,
                   color, err, arg, ret>>

\* forwardNetwork up to let out = tanh(matrixMul(model.w_in, x)).
ForwardInput ==
    /\ pc = "fwd_in"
    /\ LET v == InputVector(heap, Ratio(px, config.width),
                            Ratio(py, config.height))
           r == IF v.err # "none" THEN v
                ELSE Layer(v.heap, model["w_in"], v.id, TRUE)
       IN /\ heap' = r.heap
          /\ out' = r.id
          /\ IF r.err = "none"
             THEN pc' = "fwd_hidden" /\ err' = err
             ELSE Throw(r.err)
    /\ li' = 0
    /\ layers' = <<"w_in">>
    /\ UNCHANGED <<config, model, rng, pixels, px, py, color, arg, ret>>

\* One iteration of for (let i = 0; i < config.hidden; i++).
ForwardHidden ==
    /\ pc = "fwd_hidden"
    /\ Lt(li, config.hidden)
    /\ LET key == ForwardKey(config, li)
           r == Layer(heap, model[key], out, TRUE)
       IN /\ heap' = r.heap
          /\ out' = r.id
          /\ layers' = Append(layers, key)
          /\ IF r.err = "none"
             THEN pc' = "fwd_hidden" /\ err' = err
             ELSE Throw(r.err)
    /\ li' = li + 1
    /\ UNCHANGED <<config, model, rng, pixels, px, py, color, arg, ret>>

\* The exit of the loop, out = sigmoid(matrixMul(model.w_out, out)) and the
\* return.
ForwardOutput ==
    /\ pc = "fwd_hidden"
    /\ ~Lt(li, config.hidden)
    /\ LET r == Layer(heap, model["w_out"], out, FALSE)
       IN /\ heap' = r.heap
          /\ out' = r.id
          /\ IF r.err = "none"
             THEN pc' = "color" /\ err' = err
             ELSE Throw(r.err)
    /\ layers' = Append(layers, "w_out")
    /\ UNCHANGED <<config, model, rng, pixels, px, py, li, color, arg, ret>>

\* The rest of getColorAt: the noise draws, the scaling and the clamping.
GetColor ==
    /\ pc = "color"
    /\ LET r == getColorAt(heap, out, config, rng)
       IN /\ color' = r.val
          /\ rng' = r.rng
    /\ pc' = "store"
    /\ UNCHANGED <<config, model, heap, pixels, px, py, li, out, layers, err,
                   arg, ret>>

\* The four stores into pixels and x++; the locals of the calls are dead.
StorePixel ==
    /\ pc = "store"
    /\ pixels' = StoreColor(pixels, PixelIndex(config, px, py), color)
    /\ px' = px + 1
    /\ heap' = SubSeq(heap, 1, Cardinality(DOMAIN model))
    /\ out' = 0
    /\ li' = 0
    /\ layers' = <<>>
    /\ color' = <<>>
    /\ pc' = "loop_x"
    /\ UNCHANGED <<config, model, rng, py, err, arg, ret>>

Next ==
    \/ CreateModel
    \/ AllocPixels
    \/ LoopY
    \/ LoopX
    \/ ForwardInput
    \/ ForwardHidden
    \/ ForwardOutput
    \/ GetColor
    \/ StorePixel

Spec == Init /\ [][Next]_vars

(***************************************************************************)
(* The Matrix operations applied once to drawn arguments.  Objects 1 and 2 *)
(* are two matrices built by RandMat.                                      *)
(***************************************************************************)
\* The two argument matrices: RandMat(n1, d1, 0, 0.8) then
\* RandMat(n2, d2, 0, 0.8), the random source starting in state s.
TwoMatrices(n1, d1, n2, d2, s) ==
    LET a == RandMat(<<>>, n1, d1, 0, weightInitRange, s)
    IN RandMat(a.heap, n2, d2, 0, weightInitRange, a.rng)

InitOps ==
    /\ pc = "ready"
    /\ config = NoConfig
    /\ model = NoModel
    /\ \E n1 \in 0..MaxDim, d1 \in 0..MaxDim, n2 \in 0..MaxDim,
          d2 \in 0..MaxDim, s \in RngStates :
          LET r == TwoMatrices(n1, d1, n2, d2, s)
          IN heap = r.heap /\ rng = r.rng
    /\ pixels = <<>>
    /\ px = 0
    /\ py = 0
    /\ li = 0
    /\ out = 0
    /\ layers = <<>>
    /\ color = <<>>
    /\ err = "none"
    /\ arg = NoArg
    /\ ret = NoRet

\* new Matrix(n, d)
OpConstruct ==
    /\ pc = "ready"
    /\ \E n \in Dims(MaxDim), d \in Dims(MaxDim) :
          LET r == New(heap, n, d)
          IN /\ heap' = r.heap
             /\ err' = r.err
             /\ ret' = [id |-> r.id]
             /\ arg' = [op |-> "construct", n |-> n, d |-> d]
    /\ pc' = "applied"
    /\ UNCHANGED <<config, model, rng, pixels, px, py, li, out, layers, color>>

\* (object 1).get(row, col)
OpGet ==
    /\ pc = "ready"
    /\ \E row \in -1..(MaxDim + 1), col \in -1..(MaxDim + 1) :
          LET r == get(heap, 1, row, col)
          IN /\ err' = r.err
             /\ ret' = r.val
             /\ arg' = [op |-> "get", row |-> row, col |-> col]
    /\ pc' = "applied"
    /\ UNCHANGED <<config, model, heap, rng, pixels, px, py, li, out, layers,
                   color>>

\* (object 1).set(row, col, value)
OpSet ==
    /\ pc = "ready"
    /\ \E row \in -1..(MaxDim + 1), col \in -1..(MaxDim + 1),
          value \in {Scale} :
          LET r == set(heap, 1, row, col, value)
          IN /\ err' = r.err
             /\ heap' = r.heap
             /\ arg' = [op |-> "set", row |-> row, col |-> col,
                        value |-> value]
    /\ ret' = NoRet
    /\ pc' = "applied"
    /\ UNCHANGED <<config, model, rng, pixels, px, py, li, out, layers, color>>

\* matrixMul(object 1, object 2)
OpMul ==
    /\ pc = "ready"
    /\ LET r == matrixMul(heap, 1, 2)
       IN /\ heap' = r.heap
          /\ err' = r.err
          /\ ret' = [id |-> r.id]
    /\ arg' = [op |-> "mul"]
    /\ pc' = "applied"
    /\ UNCHANGED <<config, model, rng, pixels, px, py, li, out, layers, color>>

NextOps ==
    \/ OpConstruct
    \/ OpGet
    \/ OpSet
    \/ OpMul

SpecOps == InitOps /\ [][NextOps]_vars

(***************************************************************************)
(* generateGaussianRandom statement by statement, every call of            *)
(* Math.random() returning an arbitrary value.  arg holds the locals u, v  *)
(* and r, ret the value returned, li the number of rejected pairs so far   *)
(* (counted up to MaxRedraws).                                             *)
(***************************************************************************)
MaxRedraws == 2

InitGauss ==
    /\ pc = "g_u"
    /\ config = NoConfig
    /\ model = NoModel
    /\ heap = <<>>
    /\ rng = 0
    /\ pixels = <<>>
    /\ px = 0
    /\ py = 0
    /\ li = 0
    /\ out = 0
    /\ layers = <<>>
    /\ color = <<>>
    /\ err = "none"
    /\ arg = [op |-> "gauss", u |-> 0, v |-> 0, r |-> 0]
    /\ ret = NoRet

\* u = 2 * Math.random() - 1
GaussDrawU ==
    /\ pc = "g_u"
    /\ \E s \in RngStates : arg' = [arg EXCEPT !.u = Uniform(MathRandom(s))]
    /\ pc' = "g_v"
    /\ UNCHANGED <<config, model, heap, rng, pixels, px, py, li, out, layers,
                   color, err, ret>>

\* v = 2 * Math.random() - 1; r = u * u + v * v
GaussDrawV ==
    /\ pc = "g_v"
    /\ \E s \in RngStates :
          LET v == Uniform(MathRandom(s))
          IN arg' = [arg EXCEPT !.v = v, !.r = RadiusSq(arg.u, v)]
    /\ pc' = "g_while"
    /\ UNCHANGED <<config, model, heap, rng, pixels, px, py, li, out, layers,
                   color, err, ret>>

\* A draw of v that the loop condition will accept.
GaussDrawAccepted == GaussDrawV /\ ~Rejected(arg'.r)

\* while (r === 0 || r > 1): back to the draws.
GaussRedraw ==
    /\ pc = "g_while"
    /\ Rejected(arg.r)
    /\ pc' = "g_u"
    /\ li' = IF li < MaxRedraws THEN li + 1 ELSE li
    /\ UNCHANGED <<config, model, heap, rng, pixels, px, py, out, layers,
                   color, err, arg, ret>>

\* The loop exit: c = Math.sqrt((-2 * Math.log(r)) / r); return u * c
GaussReturn ==
    /\ pc = "g_while"
    /\ ~Rejected(arg.r)
    /\ ret' = [val |-> GaussValue(arg.u, arg.r)]
    /\ pc' = "g_done"
    /\ UNCHANGED <<config, model, heap, rng, pixels, px, py, li, out, layers,
                   color, err, arg>>

NextGauss ==
    \/ GaussDrawU
    \/ GaussDrawV
    \/ GaussRedraw
    \/ GaussReturn

\* The loop runs while it can, and the random source does not return
\* rejected pairs forever.
SpecGauss ==
    /\ InitGauss
    /\ [][NextGauss]_vars
    /\ WF_vars(NextGauss)
    /\ SF_vars(GaussDrawAccepted)

(***************************************************************************)
(* Properties                                                              *)
(***************************************************************************)
Misalignment == "Matrix dimensions misaligned"

IndexError == "index out of bounds"

\* The Model's matrices by name.
ModelView == [k \in DOMAIN model |-> heap[model[k]]]

\* The names forwardNetwork is to multiply by, in order, for `hidden` layers.
ExpectedLayers(hidden) ==
    <<"w_in">> \o [k \in 1..hidden |-> HiddenKey(k - 1)] \o <<"w_out">>

\* C1: for non-negative integer width and height (and a non-negative
\* integer input, any hidden, any maxR/maxG/maxB) getImageData throws
\* nothing and its buffer has exactly width * height * 4 elements.
C1_BufferLength ==
    (config.width >= 0 /\ config.height >= 0 /\ config.input >= 0)
        => /\ pc # "error"
           /\ pc \in {"loop_y", "loop_x", "fwd_in", "fwd_hidden", "color",
                      "store", "done"}
                => Len(pixels) = config.width * config.height * 4

\* C1 witness: a finished render of a 2 x 1 image: 8 bytes, both alpha
\* bytes 255.
C1_Witness ==
    /\ pc = "done"
    /\ config.width = 2 /\ config.height = 1 /\ config.input = 2
    /\ Len(pixels) = 8 /\ pixels[4] = 255 /\ pixels[8] = 255

\* C2: every colour channel getColorAt returns lies in [0, 255] and the
\* alpha component is exactly 255, whatever maxR/maxG/maxB and the noise.
C2_ColourRange ==
    pc = "store"
        => /\ Len(color) = 4
           /\ \A k \in 1..3 : ~IsNaN(color[k]) /\ 0 <= color[k]
                              /\ color[k] <= 255 * Fine
           /\ color[4] = 255 * Fine

\* C2 witness: a colour whose red channel was clamped from below (a negative
\* maxR) and whose blue channel was clamped from above (maxB above 255).
C2_Witness ==
    /\ pc = "store"
    /\ config.maxR = -20 /\ color[1] = 0
    /\ config.maxB = 300 /\ color[3] = 255 * Fine

\* C3: matrixMul(A, B) throws the misalignment error exactly when
\* A.d # B.n; otherwise it throws nothing and returns a matrix of shape
\* (A.n, B.d) whose buffer has A.n * B.d elements.
C3_MulShape ==
    [][(pc = "ready" /\ arg'.op = "mul")
        => /\ (err' = Misalignment) <=> (heap[1].d # heap[2].n)
           /\ (heap[1].d = heap[2].n)
                => /\ err' = "none"
                   /\ ret'.id \in 1..Len(heap')
                   /\ heap'[ret'.id].n = heap[1].n
                   /\ heap'[ret'.id].d = heap[2].d
                   /\ Len(heap'[ret'.id].w) = heap[1].n * heap[2].d]_vars

\* C3 witness: a product of misaligned matrices was rejected.
C3_Witness ==
    /\ pc = "applied" /\ arg.op = "mul"
    /\ err = Misalignment
    /\ heap[1].d = 2 /\ heap[2].n = 1

C5_LenientBounds ==
    [][(pc = "ready" /\ arg'.op \in {"get", "set"})
        => LET ix == heap[1].d * arg'.row + arg'.col
               w == heap[1].w
               inside == 0 <= ix /\ ix < Len(w)
           IN /\ (err' = IndexError) <=> (ix >= 0 /\ ix > Len(w))
              /\ err' \in {"none", IndexError}
              /\ Len(heap'[1].w) = Len(w)
              /\ (arg'.op = "get" /\ err' = "none")
                    => /\ ret'.defined = inside
                       /\ inside => ret'.v = w[ix + 1]
              /\ (arg'.op = "set" /\ err' = "none")
                    => heap'[1].w = IF inside
                                    THEN [w EXCEPT ![ix + 1] = arg'.value]
                                    ELSE w
              /\ heap'[2] = heap[2]]_vars

\* C5 witness: a set at ix equal to the (positive) buffer length threw
\* nothing.
C5_Witness ==
    /\ pc = "applied" /\ arg.op = "set"
    /\ err = "none"
    /\ Len(heap[1].w) > 0
    /\ heap[1].d * arg.row + arg.col = Len(heap[1].w)

C7_ModelShape ==
    (pc # "start" /\ config.input >= 0 /\ config.hidden >= 0)
        => /\ DOMAIN model = {"w_in", "w_out"}
                \cup {HiddenKey(k) : k \in 0..(config.hidden - 1)}
           /\ Cardinality(DOMAIN model) = config.hidden + 2
           /\ \A k \in DOMAIN model : model[k] \in 1..Len(heap)
           /\ \A k1, k2 \in DOMAIN model : model[k1] = model[k2] => k1 = k2
           /\ \A k \in DOMAIN model :
                /\ ModelView[k].n = (IF k = "w_out" THEN 3 ELSE config.input)
                /\ ModelView[k].d = (IF k = "w_in" THEN 3 ELSE config.input)
                /\ Len(ModelView[k].w) = ModelView[k].n * ModelView[k].d

\* C7 witness: a model built for input = 2 and hidden = 2.
C7_Witness ==
    /\ pc = "alloc"
    /\ config.input = 2 /\ config.hidden = 2
    /\ DOMAIN model = {"w_in", "w_out", "w_0", "w_1"}
    /\ ModelView["w_1"].w # ModelView["w_0"].w

\* C8: for integers input >= 0 and hidden >= 0 forwardNetwork never throws
\* the misalignment error; it multiplies by w_in, then w_0 .. w_{hidden-1}
\* in increasing order, then w_out, and returns a matrix of shape (3, 1).
C8_ForwardOrder ==
    (config.input >= 0 /\ config.hidden >= 0)
        => /\ err # Misalignment
           /\ pc = "fwd_hidden"
                => /\ li <= config.hidden
                   /\ layers = SubSeq(ExpectedLayers(config.hidden), 1, li + 1)
           /\ pc \in {"color", "store"}
                => /\ li = config.hidden
                   /\ layers = ExpectedLayers(config.hidden)
                   /\ heap[out].n = 3 /\ heap[out].d = 1
                   /\ Len(heap[out].w) = 3

\* C8 witness: a forward pass through two hidden layers has returned.
C8_Witness ==
    /\ pc = "color"
    /\ config.input = 2 /\ config.hidden = 2
    /\ layers = <<"w_in", "w_0", "w_1", "w_out">>

\* C9: the loop of generateGaussianRandom redraws while r is 0 or above 1,
\* returns at the first pair with 0 < r <= 1 the value computed from that
\* pair's u and r, and, the random source not returning rejected pairs
\* forever, terminates.
C9_RejectionLoop ==
    /\ [](pc = "g_done"
            => /\ 0 < arg.r /\ arg.r <= 16
               /\ arg.r = arg.u * arg.u + arg.v * arg.v
               /\ ret.val = (arg.u * SqrtLog(arg.r)) \div 4)
    /\ [][pc = "g_while"
            => IF arg.r = 0 \/ arg.r > 16
               THEN pc' = "g_u" /\ ret' = ret
               ELSE pc' = "g_done" /\ arg' = arg]_vars
    /\ <>(pc = "g_done")

\* C9 witness: the sampler returned after rejecting pairs.
C9_Witness ==
    /\ pc = "g_done"
    /\ li = MaxRedraws
    /\ arg.r = 5

====
